---- MODULE Spec2Model ----
(***************************************************************************)
(* A model of gta's dependency graph engine (graph.go) and of its result   *)
(* assembly (gta.go).                                                      *)
(*                                                                         *)
(* The external unit loader (packages.Load) hands BuildDependencyGraph a   *)
(* graph of units; each unit has an ID, an import path (PkgPath), member   *)
(* files and direct imports.  BuildDependencyGraph walks it with the       *)
(* recursive closure addPackage and fills four indices.  The queries       *)
(* (Dependencies, Dependents, their transitive forms, AffectedPackages)    *)
(* read the indices.                                                       *)
(***************************************************************************)
EXTENDS Integers, Sequences, FiniteSets, TLC

(***************************************************************************)
(* Bounds of the model.                                                    *)
(***************************************************************************)
\* number of units the loader reports in a graph-shaped load
NUnits == 4
\* largest number of import edges in a graph-shaped load
MaxEdges == 4
\* number of units the loader reports in a file-shaped load
NFileUnits == 2
\* largest number of changed files handed to one AffectedPackages call
MaxChanged == 2
\* largest number of units in one list of a Packages result object
MaxList == 2

VARIABLES
    loader,          \* what packages.Load returned: the roots; Imports, PkgPath, Files per unit ID
    pc,              \* "build" while BuildDependencyGraph runs, "ready" after it returned
    rootsTodo,       \* loadedPackages not yet handed to addPackage
    stack,           \* the active addPackage calls, innermost last
    packageMap,      \* dg.packageMap: the registered unit IDs
    packagePathMap,  \* dg.packagePathMap: PkgPath -> sequence of unit IDs
    fileMap,         \* dg.fileMap: file -> unit ID
    dirMap,          \* dg.dirMap: directory -> set of unit IDs
    Dependencies,    \* Package.Dependencies of every registered unit
    Dependents,      \* Package.Dependents of every registered unit
    last,            \* the most recent query and what it returned
    jpc,             \* how far a Packages result object has travelled
    packages,        \* a *Packages result object
    wire,            \* the JSON document MarshalJSON produced from it
    decoded,         \* the *Packages that UnmarshalJSON filled from the document
    printed          \* the path list main prints without the JSON flag

vars == <<loader, pc, rootsTodo, stack, packageMap, packagePathMap, fileMap,
          dirMap, Dependencies, Dependents, last, jpc, packages, wire, decoded, printed>>

jsonVars == <<jpc, packages, wire, decoded, printed>>

graphVars == <<packageMap, packagePathMap, fileMap, dirMap, Dependencies, Dependents>>

(***************************************************************************)
(* Files are sequences of path segments; filepath.Dir drops the last one.  *)
(***************************************************************************)
Dir(f) == SubSeq(f, 1, Len(f) - 1)

\* Import paths are sequences of segments too.  PathName(k) is the k-th import path
\* the loader may report; no unit carries UnknownPath.
PathName(k) == <<"pkg", ToString(k)>>
UnknownPath == <<"nonexistent", "path">>

UnitIDs == DOMAIN loader.PkgPath

\* all member files of a unit: GoFiles, CompiledGoFiles, IgnoredFiles, OtherFiles
MemberFiles(u) == loader.Files[u]

(***************************************************************************)
(* The loads the model starts from.  Unit IDs are numbered so that every   *)
(* import points to a smaller ID: the graph is acyclic at the unit-ID      *)
(* level.  Import paths are assigned freely, so variants sharing a path    *)
(* and path-level cycles are included.                                     *)
(***************************************************************************)
AllEdges(n) == {e \in (1..n) \X (1..n) : e[2] < e[1]}

ImportsOf(E, n) == [u \in 1..n |-> {e[2] : e \in {x \in E : x[1] = u}}]

\* the units no other unit imports
Sources(E, n) == {u \in 1..n : \A e \in E : e[2] # u}

\* the units of S from the largest ID to the smallest
RECURSIVE Descending(_)
Descending(S) ==
    IF S = {} THEN <<>>
    ELSE LET m == CHOOSE x \in S : \A y \in S : y <= x
         IN  <<m>> \o Descending(S \ {m})

\* every unit on an import path of its own, or one unit sharing the path of another
PathAssignments(n) ==
    {[u \in 1..n |-> PathName(u)]}
        \cup {[u \in 1..n |-> PathName(IF u = e[1] THEN e[2] ELSE u)] : e \in AllEdges(n)}

\* graph-shaped loads: every import DAG, at most one import path with two variants,
\* one member file per unit, all in one directory.  The load was asked for the
\* units nothing imports and reached the others through NeedDeps.
GraphLoads ==
    {[Roots   |-> Descending(Sources(E, NUnits)),
      Imports |-> ImportsOf(E, NUnits),
      PkgPath |-> P,
      Files   |-> [u \in 1..NUnits |-> {<<"src", ToString(u)>>}]] :
        E \in {S \in SUBSET AllEdges(NUnits) : Cardinality(S) <= MaxEdges},
        P \in PathAssignments(NUnits)}

FilePool == {<<"d1", "a.go">>, <<"d1", "b.go">>, <<"d2", "a.go">>}

FileSets == {S \in SUBSET FilePool : S # {} /\ S # FilePool}

\* file-shaped loads: NFileUnits units with every assignment of member files and of
\* two import paths (up to renaming), and one unit without files that imports at
\* most one of them; the roots come from the smallest ID up or from the largest down
FileLoads ==
    {[Roots   |-> R,
      Imports |-> [u \in 1..(NFileUnits + 1) |-> IF u = NFileUnits + 1 THEN E ELSE {}],
      PkgPath |-> [u \in 1..(NFileUnits + 1) |->
                      IF u = NFileUnits + 1 THEN PathName(u) ELSE PathName(P[u])],
      Files   |-> [u \in 1..(NFileUnits + 1) |-> IF u = NFileUnits + 1 THEN {} ELSE F[u]]] :
        E \in {S \in SUBSET (1..NFileUnits) : Cardinality(S) <= 1},
        P \in {Q \in [1..NFileUnits -> {1, 2}] : Q[1] = 1},
        F \in [1..NFileUnits -> FileSets],
        R \in {Descending(1..(NFileUnits + 1)), [i \in 1..(NFileUnits + 1) |-> i]}}

EmptyFn == [x \in {} |-> {}]

NoQuery == [op |-> "none", path |-> <<>>, files |-> {}, status |-> "none",
            direct |-> {}, pkgs |-> {}, calls |-> 0]

NoPackages == [Dependencies |-> EmptyFn, Changes |-> <<>>, AllChanges |-> <<>>]

Init ==
    /\ loader \in GraphLoads \cup FileLoads
    /\ jpc = "none"
    /\ packages = NoPackages
    /\ wire = EmptyFn
    /\ decoded = NoPackages
    /\ printed = <<>>
    /\ pc = "build"
    /\ rootsTodo = loader.Roots
    /\ stack = <<>>
    /\ packageMap = {}
    /\ packagePathMap = EmptyFn
    /\ fileMap = EmptyFn
    /\ dirMap = EmptyFn
    /\ Dependencies = EmptyFn
    /\ Dependents = EmptyFn
    /\ last = NoQuery

(***************************************************************************)
(* BuildDependencyGraph.  addPackage is recursive in the source; the model *)
(* keeps its call stack.  A frame holds the unit being added, the imports  *)
(* its loop has not visited yet and the import whose addPackage call is    *)
(* running (0 when none).  pkg.Imports is a Go map: the loop visits the    *)
(* imports in any order.                                                   *)
(***************************************************************************)
Frame(u) == [pkg |-> u, todo |-> loader.Imports[u], cur |-> 0]

Top == stack[Len(stack)]

SetTop(f) == [stack EXCEPT ![Len(stack)] = f]

\* graph.go:87-110: the new node enters packageMap, packagePathMap, fileMap, dirMap
Extend(f, k, v) == [x \in DOMAIN f \cup {k} |-> IF x = k THEN v ELSE f[x]]

RegisterFiles(u) ==
    [f \in DOMAIN fileMap \cup MemberFiles(u) |->
        IF f \in MemberFiles(u) THEN u ELSE fileMap[f]]

RegisterDirs(u) ==
    LET dirs == {Dir(f) : f \in MemberFiles(u)}
    IN  [d \in DOMAIN dirMap \cup dirs |->
            (IF d \in DOMAIN dirMap THEN dirMap[d] ELSE {})
                \cup (IF d \in dirs THEN {u} ELSE {})]

\* a variant of RegisterPath that enters only units with member files
RegisterPathWithFiles(u) ==
    LET p == loader.PkgPath[u]
    IN  IF MemberFiles(u) = {} THEN packagePathMap
        ELSE Extend(packagePathMap, p,
                    IF p \in DOMAIN packagePathMap THEN Append(packagePathMap[p], u)
                    ELSE <<u>>)

\* graph.go:94
RegisterPath(u) ==
    LET p == loader.PkgPath[u]
    IN  Extend(packagePathMap, p,
               IF p \in DOMAIN packagePathMap THEN Append(packagePathMap[p], u) ELSE <<u>>)

Register(u) ==
    /\ packageMap' = packageMap \cup {u}
    /\ packagePathMap' = RegisterPath(u)
    /\ fileMap' = RegisterFiles(u)
    /\ dirMap' = RegisterDirs(u)
    /\ Dependencies' = Extend(Dependencies, u, {})
    /\ Dependents' = Extend(Dependents, u, {})

\* a variant of AddEdge that forgets the reverse edge
AddEdgeOneWay(importer, imported) ==
    /\ Dependents' = Dependents
    /\ Dependencies' = [Dependencies EXCEPT ![importer] = @ \cup {imported}]

\* graph.go:118-119: both directions of the edge importer -> imported
AddEdge(importer, imported) ==
    /\ Dependents' = [Dependents EXCEPT ![imported] = @ \cup {importer}]
    /\ Dependencies' = [Dependencies EXCEPT ![importer] = @ \cup {imported}]

\* a variant of AddRoot whose addPackage lacks the seen check of graph.go:74-76
AddRootNoSeenCheck ==
    /\ pc = "build"
    /\ stack = <<>>
    /\ rootsTodo # <<>>
    /\ rootsTodo' = Tail(rootsTodo)
    /\ Register(Head(rootsTodo))
    /\ stack' = <<Frame(Head(rootsTodo))>>
    /\ UNCHANGED <<loader, pc, last>>
    /\ UNCHANGED jsonVars

\* graph.go:125-131: the loop over loadedPackages calls addPackage on a root
AddRoot ==
    /\ pc = "build"
    /\ stack = <<>>
    /\ rootsTodo # <<>>
    /\ rootsTodo' = Tail(rootsTodo)
    /\ IF Head(rootsTodo) \in packageMap
       THEN UNCHANGED <<stack, graphVars>>
       ELSE /\ Register(Head(rootsTodo))
            /\ stack' = <<Frame(Head(rootsTodo))>>
    /\ UNCHANGED <<loader, pc, last>>
    /\ UNCHANGED jsonVars

\* graph.go:112-120: the import loop meets an import that is already registered:
\* addPackage returns the existing node (graph.go:74-76) and the edge is stored
AddSeenImport ==
    /\ pc = "build"
    /\ stack # <<>>
    /\ Top.cur = 0
    /\ \E i \in Top.todo :
        /\ i \in packageMap
        /\ AddEdge(Top.pkg, i)
        /\ stack' = SetTop([Top EXCEPT !.todo = @ \ {i}])
    /\ UNCHANGED <<loader, pc, rootsTodo, packageMap, packagePathMap, fileMap, dirMap, last>>
    /\ UNCHANGED jsonVars

\* graph.go:113 with graph.go:87-110: the import is new: addPackage registers it
\* and starts its own import loop
AddNewImport ==
    /\ pc = "build"
    /\ stack # <<>>
    /\ Top.cur = 0
    /\ \E i \in Top.todo :
        /\ i \notin packageMap
        /\ Register(i)
        /\ stack' = Append(SetTop([Top EXCEPT !.todo = @ \ {i}, !.cur = i]), Frame(i))
    /\ UNCHANGED <<loader, pc, rootsTodo, last>>
    /\ UNCHANGED jsonVars

\* graph.go:122 then graph.go:118-119 in the caller: addPackage returns the new node
\* and the caller stores the edge to it
ReturnPackage ==
    /\ pc = "build"
    /\ stack # <<>>
    /\ Top.cur = 0
    /\ Top.todo = {}
    /\ LET rest == SubSeq(stack, 1, Len(stack) - 1)
       IN  IF rest = <<>>
           THEN /\ stack' = rest
                /\ UNCHANGED <<Dependencies, Dependents>>
           ELSE LET caller == rest[Len(rest)]
                IN  /\ AddEdge(caller.pkg, caller.cur)
                    /\ stack' = [rest EXCEPT ![Len(rest)] = [caller EXCEPT !.cur = 0]]
    /\ UNCHANGED <<loader, pc, rootsTodo, packageMap, packagePathMap, fileMap, dirMap, last>>
    /\ UNCHANGED jsonVars

\* graph.go:132: BuildDependencyGraph returns the graph
BuildDone ==
    /\ pc = "build"
    /\ stack = <<>>
    /\ rootsTodo = <<>>
    /\ pc' = "ready"
    /\ UNCHANGED <<loader, rootsTodo, stack, graphVars, last>>
    /\ UNCHANGED jsonVars

(***************************************************************************)
(* The queries.  dependencies and dependents (graph.go:211-263) recurse by *)
(* import path.  Each returns a record: status "ok" with the ID-keyed      *)
(* result map as the set pkgs, status "err" for ErrUnknownPackage, or      *)
(* status "overflow".  calls counts the invocations made.                  *)
(*                                                                         *)
(* The graph is immutable, so a chain of nested calls longer than the      *)
(* number of registered import paths repeats a path and never returns: the *)
(* Go runtime ends the program with a stack overflow.  That is the status  *)
(* "overflow".                                                             *)
(***************************************************************************)
StackLimit == Cardinality(DOMAIN packagePathMap)

Range(s) == {s[i] : i \in DOMAIN s}

Ok(pkgs, calls) == [status |-> "ok", pkgs |-> pkgs, calls |-> calls]

Failed(status, calls) == [status |-> status, pkgs |-> {}, calls |-> calls]

\* graph.go:220-232 and graph.go:247-259: one iteration of the inner loop
Merge(acc, d, sub) ==
    IF sub.status # "ok"
    THEN Failed(sub.status, acc.calls + sub.calls)
    ELSE Ok(acc.pkgs \cup {d} \cup sub.pkgs, acc.calls + sub.calls)

RECURSIVE dependencies(_, _, _), dependenciesLoop(_, _, _, _)

\* graph.go:211-236
dependencies(pkgPath, recursive, depth) ==
    IF depth > StackLimit THEN Failed("overflow", 1)
    ELSE IF pkgPath \notin DOMAIN packagePathMap THEN Failed("err", 1)
    ELSE dependenciesLoop(
            {<<pkg, depPkg>> : pkg \in Range(packagePathMap[pkgPath]), depPkg \in packageMap}
                \cap {e \in packageMap \X packageMap : e[2] \in Dependencies[e[1]]},
            Ok({}, 1), recursive, depth)

\* a variant of dependenciesLoop that recurses whatever the recursive flag says
RECURSIVE dependenciesLoopDeep(_, _, _, _)
dependenciesLoopDeep(todo, acc, recursive, depth) ==
    IF todo = {} \/ acc.status # "ok" THEN acc
    ELSE LET e == CHOOSE x \in todo : TRUE
         IN  dependenciesLoopDeep(todo \ {e},
                 Merge(acc, e[2], dependencies(loader.PkgPath[e[2]], TRUE, depth + 1)),
                 recursive, depth)

\* graph.go:218-234: the loops over the variants and over each variant's Dependencies
dependenciesLoop(todo, acc, recursive, depth) ==
    IF todo = {} \/ acc.status # "ok" THEN acc
    ELSE LET e == CHOOSE x \in todo : TRUE
             sub == IF recursive
                    THEN dependencies(loader.PkgPath[e[2]], TRUE, depth + 1)
                    ELSE Ok({}, 0)
         IN  dependenciesLoop(todo \ {e}, Merge(acc, e[2], sub), recursive, depth)

RECURSIVE dependents(_, _, _), dependentsLoop(_, _, _, _)

\* a variant of dependents that answers an unknown path with an empty result
dependentsNoErr(pkgPath, recursive, depth) ==
    IF depth > StackLimit THEN Failed("overflow", 1)
    ELSE IF pkgPath \notin DOMAIN packagePathMap THEN Ok({}, 1)
    ELSE dependentsLoop(
            {<<pkg, depPkg>> : pkg \in Range(packagePathMap[pkgPath]), depPkg \in packageMap}
                \cap {e \in packageMap \X packageMap : e[2] \in Dependents[e[1]]},
            Ok({}, 1), recursive, depth)

\* graph.go:238-263
dependents(pkgPath, recursive, depth) ==
    IF depth > StackLimit THEN Failed("overflow", 1)
    ELSE IF pkgPath \notin DOMAIN packagePathMap THEN Failed("err", 1)
    ELSE dependentsLoop(
            {<<pkg, depPkg>> : pkg \in Range(packagePathMap[pkgPath]), depPkg \in packageMap}
                \cap {e \in packageMap \X packageMap : e[2] \in Dependents[e[1]]},
            Ok({}, 1), recursive, depth)

\* a variant of dependentsLoop that never recurses
RECURSIVE dependentsLoopFlat(_, _, _, _)
dependentsLoopFlat(todo, acc, recursive, depth) ==
    IF todo = {} \/ acc.status # "ok" THEN acc
    ELSE LET e == CHOOSE x \in todo : TRUE
         IN  dependentsLoopFlat(todo \ {e}, Merge(acc, e[2], Ok({}, 0)), recursive, depth)

\* graph.go:245-261: the loops over the variants and over each variant's Dependents
dependentsLoop(todo, acc, recursive, depth) ==
    IF todo = {} \/ acc.status # "ok" THEN acc
    ELSE LET e == CHOOSE x \in todo : TRUE
             sub == IF recursive
                    THEN dependents(loader.PkgPath[e[2]], TRUE, depth + 1)
                    ELSE Ok({}, 0)
         IN  dependentsLoop(todo \ {e}, Merge(acc, e[2], sub), recursive, depth)

Answer(op, path, files, direct, r) ==
    [op |-> op, path |-> path, files |-> files, status |-> r.status,
     direct |-> IF r.status = "ok" THEN direct ELSE {},
     pkgs |-> r.pkgs, calls |-> r.calls]

\* the import paths a caller may ask about
QueryPaths == {loader.PkgPath[u] : u \in UnitIDs} \cup {UnknownPath}

\* graph.go:139-145
QDependencies ==
    /\ pc = "ready"
    /\ last = NoQuery
    /\ \E p \in QueryPaths :
        last' = Answer("Dependencies", p, {}, {}, dependencies(p, FALSE, 1))
    /\ UNCHANGED <<loader, pc, rootsTodo, stack, graphVars>>
    /\ UNCHANGED jsonVars

\* graph.go:148-154
QTransitiveDependencies ==
    /\ pc = "ready"
    /\ last = NoQuery
    /\ \E p \in QueryPaths :
        last' = Answer("TransitiveDependencies", p, {}, {}, dependencies(p, TRUE, 1))
    /\ UNCHANGED <<loader, pc, rootsTodo, stack, graphVars>>
    /\ UNCHANGED jsonVars

\* graph.go:157-163
QDependents ==
    /\ pc = "ready"
    /\ last = NoQuery
    /\ \E p \in QueryPaths :
        last' = Answer("Dependents", p, {}, {}, dependents(p, FALSE, 1))
    /\ UNCHANGED <<loader, pc, rootsTodo, stack, graphVars>>
    /\ UNCHANGED jsonVars

\* graph.go:166-172
QTransitiveDependents ==
    /\ pc = "ready"
    /\ last = NoQuery
    /\ \E p \in QueryPaths :
        last' = Answer("TransitiveDependents", p, {}, {}, dependents(p, TRUE, 1))
    /\ UNCHANGED <<loader, pc, rootsTodo, stack, graphVars>>
    /\ UNCHANGED jsonVars

\* a variant of FileOwners without the continue of graph.go:182
FileOwnersNoContinue(f) ==
    (IF f \in DOMAIN fileMap THEN {fileMap[f]} ELSE {})
        \cup (IF Dir(f) \in DOMAIN dirMap THEN dirMap[Dir(f)] ELSE {})

\* graph.go:178-192: what one changed file adds to directlyAffected
FileOwners(f) ==
    IF f \in DOMAIN fileMap THEN {fileMap[f]}
    ELSE IF Dir(f) \in DOMAIN dirMap THEN dirMap[Dir(f)]
    ELSE {}

\* a variant of directlyAffected that gives up at a file neither index knows
directlyAffectedStrict(files) ==
    IF \E f \in files : FileOwners(f) = {} THEN {}
    ELSE UNION {FileOwners(f) : f \in files}

\* graph.go:177-192: the loop over the changed files
directlyAffected(files) == UNION {FileOwners(f) : f \in files}

RECURSIVE allAffected(_, _)

\* graph.go:194-207: the loop over directlyAffected, one transitive dependents call each
allAffected(todo, acc) ==
    IF todo = {} \/ acc.status # "ok" THEN acc
    ELSE LET pkg == CHOOSE x \in todo : TRUE
         IN  allAffected(todo \ {pkg},
                         Merge(acc, pkg, dependents(loader.PkgPath[pkg], TRUE, 1)))

\* the files a diff may name: member files, other files next to them, files elsewhere
ChangedPool ==
    LET members == UNION {MemberFiles(u) : u \in UnitIDs}
    IN  members \cup {Append(Dir(f), "README.md") : f \in members}
                \cup {<<"docs", "README.md">>}

ChangedSets == {F \in SUBSET ChangedPool : Cardinality(F) <= MaxChanged}

\* graph.go:176-209
AffectedPackages ==
    /\ pc = "ready"
    /\ last = NoQuery
    /\ \E files \in ChangedSets :
        last' = Answer("AffectedPackages", <<>>, files, directlyAffected(files),
                       allAffected(directlyAffected(files), Ok({}, 0)))
    /\ UNCHANGED <<loader, pc, rootsTodo, stack, graphVars>>
    /\ UNCHANGED jsonVars

\* the caller drops the returned slices; the graph is ready for the next query
Discard ==
    /\ pc = "ready"
    /\ last # NoQuery
    /\ last' = NoQuery
    /\ UNCHANGED <<loader, pc, rootsTodo, stack, graphVars>>
    /\ UNCHANGED jsonVars

Next ==
    \/ AddRoot
    \/ AddSeenImport
    \/ AddNewImport
    \/ ReturnPackage
    \/ BuildDone
    \/ QDependencies
    \/ QTransitiveDependencies
    \/ QDependents
    \/ QTransitiveDependents
    \/ AffectedPackages
    \/ Discard

Spec == Init /\ [][Next]_vars

(***************************************************************************)
(* The result object and its JSON form (gta.go).  Here an import path is a *)
(* string: a sequence of byte values, compared byte by byte as Go compares *)
(* strings.  A unit of a result object is a record of its ID and PkgPath;  *)
(* the stand-in that UnmarshalJSON builds has the empty ID.                *)
(***************************************************************************)
\* "_test" and ".test"
TestSuffix == <<95, 116, 101, 115, 116>>
DotTestSuffix == <<46, 116, 101, 115, 116>>

\* strings.HasSuffix
HasSuffix(str, suffix) ==
    /\ Len(str) >= Len(suffix)
    /\ SubSeq(str, Len(str) - Len(suffix) + 1, Len(str)) = suffix

\* strings.TrimSuffix
TrimSuffix(str, suffix) ==
    IF HasSuffix(str, suffix) THEN SubSeq(str, 1, Len(str) - Len(suffix)) ELSE str

\* the < of Go strings
RECURSIVE StrLess(_, _)
StrLess(x, y) ==
    IF y = <<>> THEN FALSE
    ELSE IF x = <<>> THEN TRUE
    ELSE IF x[1] # y[1] THEN x[1] < y[1]
    ELSE StrLess(Tail(x), Tail(y))

\* sort.Slice with the comparison of gta.go:193-195, on a list without duplicates
RECURSIVE SortStrings(_)
SortStrings(S) ==
    IF S = {} THEN <<>>
    ELSE LET m == CHOOSE x \in S : \A y \in S \ {x} : StrLess(x, y)
         IN  <<m>> \o SortStrings(S \ {m})

\* a variant of pkgPathKey that folds "_test" only
pkgPathKeyTestOnly(pkgPath) == TrimSuffix(pkgPath, TestSuffix)

\* gta.go:179-185: the key a unit's PkgPath gets in pkgPathMap
pkgPathKey(pkgPath) ==
    IF HasSuffix(pkgPath, TestSuffix) THEN TrimSuffix(pkgPath, TestSuffix)
    ELSE IF HasSuffix(pkgPath, DotTestSuffix) THEN TrimSuffix(pkgPath, DotTestSuffix)
    ELSE pkgPath

\* gta.go:174-197
UniquePackagePaths(pkgs) == SortStrings({pkgPathKey(pkgs[i].PkgPath) : i \in DOMAIN pkgs})

\* gta.go:199-205
mapify(pkgs) == [key \in DOMAIN pkgs |-> UniquePackagePaths(pkgs[key])]

\* the fields of packagesJSON (gta.go:38-42) that json.Marshal writes: omitempty
\* leaves out an empty map and an empty list
Encode(s) == [f \in {g \in DOMAIN s : DOMAIN s[g] # {}} |-> s[f]]

\* what json.Unmarshal leaves in a field of packagesJSON: nil for a missing one
Field(doc, f) == IF f \in DOMAIN doc THEN doc[f] ELSE <<>>

\* gta.go:66, 71, 75: a unit that carries an import path and nothing else
StandIn(pkgPath) == [ID |-> <<>>, PkgPath |-> pkgPath]

StandIns(paths) == [i \in DOMAIN paths |-> StandIn(paths[i])]

\* a variant of decodeDependencies that keeps the first path of every list only
decodeDependenciesFirst(deps) ==
    [k \in {x \in DOMAIN deps : deps[x] # <<>>} |-> <<StandIn(deps[k][1])>>]

\* gta.go:63-68: only a key with at least one path gets an entry
decodeDependencies(deps) ==
    [k \in {x \in DOMAIN deps : deps[x] # <<>>} |-> StandIns(deps[k])]

\* the import paths of the result objects of the model:
\* "a", "a_test", "b.test", "a_test.test"
PathPool ==
    {<<97>>, <<97>> \o TestSuffix, <<98>> \o DotTestSuffix,
     <<97>> \o TestSuffix \o DotTestSuffix}

\* a loaded unit of a result object: its ID is its import path
PoolUnits == {[ID |-> path, PkgPath |-> path] : path \in PathPool}

UnitLists(n) == UNION {[1..k -> PoolUnits] : k \in 0..n}

\* the keys of Dependencies: "a" and "a_test"
KeyPool == {<<97>>, <<97>> \o TestSuffix}

\* the result objects the model starts from: AllChanges begins with Changes, and
\* Dependencies has at most one key
ResultObjects ==
    {[Dependencies |-> D, Changes |-> C, AllChanges |-> C \o X] :
        D \in {EmptyFn} \cup UNION {[{k} -> UnitLists(MaxList)] : k \in KeyPool},
        C \in UnitLists(MaxList),
        X \in UnitLists(1)}

NoLoad == [Roots |-> <<>>, Imports |-> <<>>, PkgPath |-> <<>>, Files |-> <<>>]

InitJSON ==
    /\ loader = NoLoad
    /\ pc = "none"
    /\ rootsTodo = <<>>
    /\ stack = <<>>
    /\ packageMap = {}
    /\ packagePathMap = EmptyFn
    /\ fileMap = EmptyFn
    /\ dirMap = EmptyFn
    /\ Dependencies = EmptyFn
    /\ Dependents = EmptyFn
    /\ last = NoQuery
    /\ jpc = "object"
    /\ packages \in ResultObjects
    /\ wire = EmptyFn
    /\ decoded = NoPackages
    /\ printed = <<>>

graphState == <<loader, pc, rootsTodo, stack, graphVars, last>>

\* gta.go:45-52
MarshalJSON ==
    /\ jpc = "object"
    /\ wire' = Encode([dependencies |-> mapify(packages.Dependencies),
                       changes      |-> UniquePackagePaths(packages.Changes),
                       all_changes  |-> UniquePackagePaths(packages.AllChanges)])
    /\ jpc' = "encoded"
    /\ UNCHANGED <<graphState, packages, decoded, printed>>

\* gta.go:56-79, on a fresh Packages
UnmarshalJSON ==
    /\ jpc = "encoded"
    /\ decoded' = [Dependencies |-> decodeDependencies(Field(wire, "dependencies")),
                   Changes      |-> StandIns(Field(wire, "changes")),
                   AllChanges   |-> StandIns(Field(wire, "all_changes"))]
    /\ jpc' = "decoded"
    /\ UNCHANGED <<graphState, packages, wire, printed>>

\* cmd/gta/main.go:86: without the JSON flag main prints the paths of AllChanges
PrintPaths ==
    /\ jpc = "object"
    /\ printed' = UniquePackagePaths(packages.AllChanges)
    /\ jpc' = "printed"
    /\ UNCHANGED <<graphState, packages, wire, decoded>>

NextJSON ==
    \/ MarshalJSON
    \/ UnmarshalJSON
    \/ PrintPaths

SpecJSON == InitJSON /\ [][NextJSON]_vars

(***************************************************************************)
(* A run of main (cmd/gta/main.go:65-75).  gta.New builds the dependency   *)
(* graph (gta.go:105); main then calls ChangedPackages, which asks the     *)
(* differ for the changed files.  What Diff returns, a file list or an     *)
(* error, is an input of the run.  jpc is main's position after New:       *)
(* "none" until ChangedPackages has returned, then "listed", "exit 1" or   *)
(* "crashed"; printed holds what main wrote before exiting.                *)
(***************************************************************************)
\* the errors Diff may return
DiffErrors == {"diff: no repository", "diff: unknown revision"}

\* gta.go:134-137 and main.go:71-75: Diff fails, ChangedPackages wraps the error
\* and main prints it and exits
DiffFails ==
    /\ pc = "ready"
    /\ jpc = "none"
    /\ \E e \in DiffErrors :
          printed' = <<"can't list dirty packages", "determining diff", e>>
    /\ jpc' = "exit 1"
    /\ UNCHANGED <<graphState, packages, wire, decoded>>

\* gta.go:150-160: the Packages built from the two slices of AffectedPackages and
\* from TransitiveDependents of each directly affected unit
Listing(direct, all) ==
    [Dependencies |-> [p \in {loader.PkgPath[u] : u \in direct} |->
                          dependents(p, TRUE, 1).pkgs],
     Changes      |-> direct,
     AllChanges   |-> all]

\* a variant of ChangedPackages that queries the graph before it looks at the
\* error of Diff
ChangedPackagesQueryFirst ==
    /\ pc = "ready"
    /\ jpc = "none"
    /\ \/ \E files \in ChangedSets :
             LET direct == directlyAffected(files)
                 r      == allAffected(direct, Ok({}, 0))
             IN  /\ last' = Answer("AffectedPackages", <<>>, files, direct, r)
                 /\ IF r.status = "ok"
                    THEN jpc' = "listed" /\ packages' = Listing(direct, r.pkgs)
                                         /\ printed' = printed
                    ELSE jpc' = "crashed" /\ UNCHANGED <<packages, printed>>
       \/ \E e \in DiffErrors :
             /\ last' = Answer("AffectedPackages", <<>>, {}, {}, Ok({}, 0))
             /\ printed' = <<"can't list dirty packages", "determining diff", e>>
             /\ jpc' = "exit 1"
             /\ packages' = packages
    /\ UNCHANGED <<loader, pc, rootsTodo, stack, graphVars, wire, decoded>>

\* gta.go:133-164 and main.go:71-75: Diff returns the changed files or an error
ChangedPackages ==
    \/ /\ pc = "ready"
       /\ jpc = "none"
       /\ \E files \in ChangedSets :
             LET direct == directlyAffected(files)
                 r      == allAffected(direct, Ok({}, 0))
             IN  /\ last' = Answer("AffectedPackages", <<>>, files, direct, r)
                 /\ IF r.status = "ok"
                    THEN jpc' = "listed" /\ packages' = Listing(direct, r.pkgs)
                                         /\ printed' = printed
                    ELSE jpc' = "crashed" /\ UNCHANGED <<packages, printed>>
       /\ UNCHANGED <<loader, pc, rootsTodo, stack, graphVars, wire, decoded>>
    \/ DiffFails

NextMain ==
    \/ AddRoot
    \/ AddSeenImport
    \/ AddNewImport
    \/ ReturnPackage
    \/ BuildDone
    \/ ChangedPackages

SpecMain == Init /\ [][NextMain]_vars

(***************************************************************************)
(* What the claims speak of, stated on the loader's data.                  *)
(***************************************************************************)
Registered(path) == \E u \in UnitIDs : loader.PkgPath[u] = path

Variants(path) == {u \in UnitIDs : loader.PkgPath[u] = path}

\* the units that list f among their member files
Owners(f) == {u \in UnitIDs : f \in MemberFiles(u)}

\* the units with at least one member file in directory d
DirUnits(d) == {u \in UnitIDs : \E g \in MemberFiles(u) : Dir(g) = d}

Unmapped(f) == Owners(f) = {} /\ DirUnits(Dir(f)) = {}

Importers(S) == {u \in UnitIDs : loader.Imports[u] \cap S # {}}

\* S and every unit that imports a unit of S through any chain of imports
RECURSIVE ImportClosure(_)
ImportClosure(S) ==
    IF Importers(S) \subseteq S THEN S ELSE ImportClosure(S \cup Importers(S))

\* S and every unit reached from S along Dependents edges
RECURSIVE DependentsClosure(_)
DependentsClosure(S) ==
    LET next == S \cup UNION {Dependents[u] : u \in S}
    IN  IF next = S THEN S ELSE DependentsClosure(next)

Returned(op) == last.op = op /\ last.status = "ok"

\* the unit IDs of an import chain a -> b -> c on three import paths
IsChain(a, b, c) ==
    /\ loader.Imports[a] = {b} /\ loader.Imports[b] = {c} /\ loader.Imports[c] = {}
    /\ Cardinality({loader.PkgPath[a], loader.PkgPath[b], loader.PkgPath[c]}) = 3

\* the diamond c -> {a, b} -> d on four import paths
IsDiamond(a, b, c, d) ==
    /\ a # b
    /\ loader.Imports[c] = {a, b} /\ loader.Imports[a] = {d}
    /\ loader.Imports[b] = {d} /\ loader.Imports[d] = {}
    /\ Cardinality({loader.PkgPath[a], loader.PkgPath[b], loader.PkgPath[c],
                    loader.PkgPath[d]}) = 4

(***************************************************************************)
(* C1: on a load that is acyclic at the unit-ID level, the transitive      *)
(* result AffectedPackages returns contains every directly affected unit   *)
(* and every unit reached from one by following Dependents edges any       *)
(* number of times.                                                        *)
(***************************************************************************)
C1_TransitiveClosed ==
    Returned("AffectedPackages") => DependentsClosure(last.direct) \subseteq last.pkgs

\* A imports B imports C, a file of C changed: direct = {C}, transitive = {A, B, C}
C1_Witness ==
    /\ Returned("AffectedPackages")
    /\ \E a, b, c \in UnitIDs :
        /\ IsChain(a, b, c)
        /\ last.files \subseteq MemberFiles(c)
        /\ last.direct = {c}
        /\ last.pkgs = {a, b, c}

(***************************************************************************)
(* C2: every unit that lists a changed file among its member files, and    *)
(* every unit that imports such a unit through any chain of imports, is in *)
(* the transitive result by unit ID.                                       *)
(***************************************************************************)
C2_EveryOwnerAffected ==
    Returned("AffectedPackages") =>
        \A f \in last.files : ImportClosure(Owners(f)) \subseteq last.pkgs

(***************************************************************************)
(* C3: on a load that is acyclic at the unit-ID level, the transitive      *)
(* queries and AffectedPackages terminate: none ends in a stack overflow.  *)
(***************************************************************************)
C3_Terminates == last.status # "overflow"

(***************************************************************************)
(* C4: one transitive query expands no unit twice: the number of           *)
(* expansions it makes is at most the number of units in the graph.        *)
(***************************************************************************)
C4_ExpansionsBounded ==
    (last.status = "ok"
        /\ last.op \in {"TransitiveDependents", "TransitiveDependencies", "AffectedPackages"})
    => last.calls <= Cardinality(packageMap)

(***************************************************************************)
(* C5: Dependencies, Dependents, TransitiveDependencies and                *)
(* TransitiveDependents return ErrUnknownPackage, and no result, exactly   *)
(* when no unit carries the given import path; for a path whose variants   *)
(* have no edge in the queried direction they return an empty result and   *)
(* no error.                                                               *)
(***************************************************************************)
PathQueries == {"Dependencies", "Dependents", "TransitiveDependencies", "TransitiveDependents"}

NoEdges(op, path) ==
    IF op \in {"Dependencies", "TransitiveDependencies"}
    THEN \A u \in Variants(path) : loader.Imports[u] = {}
    ELSE Importers(Variants(path)) = {}

C5_UnknownPackage ==
    last.op \in PathQueries =>
        /\ (last.status = "err") <=> ~Registered(last.path)
        /\ last.status = "err" => last.pkgs = {}
        /\ (Registered(last.path) /\ NoEdges(last.op, last.path))
              => (last.status = "ok" /\ last.pkgs = {})

\* an unknown path was refused while the graph holds units
C5_Witness ==
    /\ last.op = "Dependents"
    /\ last.path = UnknownPath
    /\ last.status = "err"
    /\ packageMap # {}

(***************************************************************************)
(* C6: a changed file that no unit lists, in a directory that holds member *)
(* files, makes every unit with a member file in that directory directly   *)
(* affected; a changed file that a unit lists adds its fileMap owner only. *)
(***************************************************************************)
C6_DirectoryFallback ==
    Returned("AffectedPackages") =>
        /\ \A f \in last.files :
              IF Owners(f) = {}
              THEN DirUnits(Dir(f)) \subseteq last.direct
              ELSE fileMap[f] \in Owners(f) \cap last.direct
        /\ \A u \in last.direct : \E f \in last.files :
              IF Owners(f) = {} THEN u \in DirUnits(Dir(f)) ELSE u = fileMap[f]

\* one call with a file that falls back to its directory and a member file whose
\* directory holds a unit that stays out of the direct set
C6_Witness ==
    /\ Returned("AffectedPackages")
    /\ \E f, g \in last.files :
        /\ Owners(f) = {} /\ DirUnits(Dir(f)) # {}
        /\ Owners(g) # {} /\ ~(DirUnits(Dir(g)) \subseteq last.direct)

(***************************************************************************)
(* C7: a changed file that neither index knows adds no unit and causes no  *)
(* error; when every changed file is such, both results are empty and the  *)
(* error is nil; the other files of the call are still processed.          *)
(***************************************************************************)
C7_UnmappedIgnored ==
    last.op = "AffectedPackages" =>
        /\ last.status # "err"
        /\ (\A f \in last.files : Unmapped(f))
              => (last.status = "ok" /\ last.direct = {} /\ last.pkgs = {})
        /\ last.status = "ok" =>
              /\ \A u \in last.direct : \E f \in last.files :
                    ~Unmapped(f) /\ u \in Owners(f) \cup DirUnits(Dir(f))
              /\ \A f \in last.files : ~Unmapped(f) =>
                    last.direct \cap (Owners(f) \cup DirUnits(Dir(f))) # {}

\* a call with an unmapped file and a member file: the member file's owner is found
C7_Witness ==
    /\ Returned("AffectedPackages")
    /\ \E f, g \in last.files : Unmapped(f) /\ Owners(g) # {}
    /\ last.direct # {}

(***************************************************************************)
(* C10: after BuildDependencyGraph returned, Y is in X.Dependencies        *)
(* exactly when X is in Y.Dependents, and exactly when the loader reported *)
(* Y as a direct import of X.                                              *)
(***************************************************************************)
C10_EdgesSymmetric ==
    pc = "ready" =>
        \A x, y \in UnitIDs :
            /\ (y \in Dependencies[x]) <=> (x \in Dependents[y])
            /\ (y \in Dependencies[x]) <=> (y \in loader.Imports[x])

\* a diamond was built: d was registered through one of a, b before the other reached it
C10_Witness ==
    /\ pc = "ready"
    /\ \E a, b, c, d \in UnitIDs :
        /\ IsDiamond(a, b, c, d)
        /\ Dependents[d] = {a, b}

(***************************************************************************)
(* What the claims speak of, stated on the result object.                  *)
(***************************************************************************)
\* the import paths of a list of units
PathSet(units) == {units[i].PkgPath : i \in DOMAIN units}

\* the base path of an import path: the path without one trailing "_test" or ".test"
BasePath(path) ==
    LET heads == {SubSeq(path, 1, n) : n \in 0..Len(path)}
        bases == {b \in heads : path = b \o TestSuffix \/ path = b \o DotTestSuffix}
    IN  IF bases = {} THEN path ELSE CHOOSE b \in bases : TRUE

BasePaths(units) == {BasePath(q) : q \in PathSet(units)}

\* the list of units under a key of Dependencies; none when the key is missing
Under(deps, k) == IF k \in DOMAIN deps THEN deps[k] ELSE <<>>

DependencyKeys == DOMAIN packages.Dependencies \cup DOMAIN decoded.Dependencies

HasTestVariant(units) == \E q \in PathSet(units) : BasePath(q) # q

(***************************************************************************)
(* C8 as stated: MarshalJSON followed by UnmarshalJSON reproduces the same *)
(* set of import paths in Dependencies (per key), Changes and AllChanges.  *)
(***************************************************************************)
C8_SamePathSets ==
    jpc = "decoded" =>
        /\ PathSet(decoded.Changes) = PathSet(packages.Changes)
        /\ PathSet(decoded.AllChanges) = PathSet(packages.AllChanges)
        /\ \A k \in DependencyKeys :
              PathSet(Under(decoded.Dependencies, k))
                  = PathSet(Under(packages.Dependencies, k))

(***************************************************************************)
(* C8 as amended: MarshalJSON followed by UnmarshalJSON reproduces, in     *)
(* Dependencies (per key), Changes and AllChanges, the set of base paths   *)
(* of the original units; the decoded units are path-only stand-ins.       *)
(***************************************************************************)
C8_BasePathSets ==
    jpc = "decoded" =>
        /\ PathSet(decoded.Changes) = BasePaths(packages.Changes)
        /\ PathSet(decoded.AllChanges) = BasePaths(packages.AllChanges)
        /\ \A k \in DependencyKeys :
              PathSet(Under(decoded.Dependencies, k))
                  = BasePaths(Under(packages.Dependencies, k))
        /\ \A k \in DependencyKeys : \A i \in DOMAIN Under(decoded.Dependencies, k) :
              decoded.Dependencies[k][i].ID = <<>>
        /\ \A i \in DOMAIN decoded.Changes : decoded.Changes[i].ID = <<>>
        /\ \A i \in DOMAIN decoded.AllChanges : decoded.AllChanges[i].ID = <<>>

\* an object with a test variant in Changes and two base paths under a key went
\* through both conversions
C8_Witness ==
    /\ jpc = "decoded"
    /\ HasTestVariant(packages.Changes)
    /\ \E k \in DOMAIN decoded.Dependencies : Len(decoded.Dependencies[k]) > 1

ListedOnce ==
    /\ \A p \in DOMAIN packagePathMap :
          /\ \A i, j \in DOMAIN packagePathMap[p] :
                i # j => packagePathMap[p][i] # packagePathMap[p][j]
          /\ Range(packagePathMap[p]) = packageMap \cap Variants(p)
    /\ DOMAIN Dependencies = packageMap
    /\ DOMAIN Dependents = packageMap
    /\ pc = "ready" =>
          /\ packageMap = UnitIDs
          /\ DOMAIN packagePathMap = {loader.PkgPath[u] : u \in UnitIDs}

\* a step in which addPackage was called on a root that is already registered
SeenRootCall ==
    /\ pc = "build" /\ stack = <<>> /\ rootsTodo # <<>>
    /\ Head(rootsTodo) \in packageMap
    /\ rootsTodo' = Tail(rootsTodo)

\* a step in which addPackage was called on an import that is already registered
SeenImportCall ==
    /\ pc = "build" /\ stack # <<>>
    /\ Len(stack') = Len(stack)
    /\ \E i \in Top.todo \cap packageMap : stack'[Len(stack)].todo = Top.todo \ {i}

NodesKept ==
    /\ UNCHANGED <<packageMap, packagePathMap, fileMap, dirMap>>
    /\ \A u \in packageMap :
          Dependencies[u] \subseteq Dependencies'[u] /\ Dependents[u] \subseteq Dependents'[u]

C11_RegisteredOnce ==
    /\ []ListedOnce
    /\ [][(SeenRootCall => UNCHANGED graphVars) /\ (SeenImportCall => NodesKept)]_vars

\* a built graph with a unit that two import chains reach and a path with two variants
C11_Witness ==
    /\ pc = "ready"
    /\ \E u \in packageMap : Cardinality(Dependents[u]) > 1
    /\ \E p \in DOMAIN packagePathMap : Len(packagePathMap[p]) > 1

(***************************************************************************)
(* C12: for a registered import path, Dependents returns exactly the units *)
(* that import at least one variant of the path, and Dependencies exactly  *)
(* the units that at least one variant imports; units further away are     *)
(* left out.                                                               *)
(***************************************************************************)
C12_DirectEdgesOnly ==
    /\ (last.op = "Dependents" /\ Registered(last.path)) =>
          (last.status = "ok" /\ last.pkgs = Importers(Variants(last.path)))
    /\ (last.op = "Dependencies" /\ Registered(last.path)) =>
          (last.status = "ok"
             /\ last.pkgs = UNION {loader.Imports[u] : u \in Variants(last.path)})

\* Dependencies of a path with two variants that import different units, one of
\* which imports a unit that stays out of the result
C12_Witness ==
    /\ last.op = "Dependencies" /\ last.status = "ok"
    /\ \E u, v \in Variants(last.path) : loader.Imports[u] # loader.Imports[v]
    /\ \E d \in last.pkgs : ~(loader.Imports[d] \subseteq last.pkgs)

(***************************************************************************)
(* C14: every unit that packageMap, fileMap, dirMap or an edge map holds   *)
(* has its import path in packagePathMap; so AffectedPackages never        *)
(* returns ErrUnknownPackage, and neither does a transitive query on a     *)
(* registered path.                                                        *)
(***************************************************************************)
StoredUnits ==
    packageMap
        \cup {fileMap[f] : f \in DOMAIN fileMap}
        \cup UNION {dirMap[d] : d \in DOMAIN dirMap}
        \cup UNION {Dependencies[u] : u \in DOMAIN Dependencies}
        \cup UNION {Dependents[u] : u \in DOMAIN Dependents}

C14_PathsRegistered ==
    /\ \A u \in StoredUnits : loader.PkgPath[u] \in DOMAIN packagePathMap
    /\ last.op = "AffectedPackages" => last.status # "err"
    /\ (last.op \in {"TransitiveDependents", "TransitiveDependencies"}
            /\ Registered(last.path)) => last.status # "err"

\* a transitive query on a registered path recursed into other paths and returned
C14_Witness ==
    /\ last.op = "TransitiveDependents" /\ last.status = "ok"
    /\ Registered(last.path)
    /\ last.calls > 2
    /\ \E f \in DOMAIN fileMap : fileMap[f] \in last.pkgs

(***************************************************************************)
(* C13: when Diff fails, the failure is returned wrapped and no graph work *)
(* has been done before it is reported: neither BuildDependencyGraph nor a *)
(* query.                                                                  *)
(***************************************************************************)
DiffFailed == jpc = "exit 1"

C13_NoGraphWork ==
    DiffFailed =>
        /\ \E e \in DiffErrors : printed = <<"can't list dirty packages", "determining diff", e>>
        /\ last = NoQuery
        /\ packageMap = {}
        /\ pc = "build"

\* as the code has it: New has built the whole graph before Diff is called; no
\* query has run when the wrapped failure is reported, and no result is produced
C13_BuiltButNotQueried ==
    DiffFailed =>
        /\ \E e \in DiffErrors : printed = <<"can't list dirty packages", "determining diff", e>>
        /\ last = NoQuery
        /\ packages = NoPackages
        /\ pc = "ready"
        /\ packageMap = UnitIDs

\* Diff failed on a graph that has edges and files
C13_Witness ==
    /\ DiffFailed
    /\ \E u \in packageMap : Dependents[u] # {}
    /\ DOMAIN fileMap # {}

====
